---- MODULE Spec2Model ----
(***************************************************************************)
(* Bubble tea order server (bbt_server.py): the stock ledger, the order    *)
(* counter, the order history and the availability view, driven by the     *)
(* MQTT callback on_message on the network thread and read by the          *)
(* monitoring callback update_statistics on the main thread.               *)
(*                                                                         *)
(* on_message is modelled statement by statement (pc is the position of    *)
(* the network thread inside it): the network loop runs one callback to    *)
(* completion before it takes the next message, so no message is received  *)
(* while pc # "idle"; only the monitoring thread interleaves.  Receive     *)
(* runs the callback up to and including its first write to the shared     *)
(* globals; each later statement that writes them is a step of its own.    *)
(* At pc = "idle" the variables msg, loc, outbox and pre still describe    *)
(* the call that returned last.                                            *)
(*                                                                         *)
(* A payload is a sequence of tokens (pieces of text); the token "|" is    *)
(* the delimiter character.                                                *)
(***************************************************************************)
EXTENDS Integers, Sequences, FiniteSets, TLC

\* ---- bounds of the model ------------------------------------------------
\* Order/Request messages delivered to the server in one run.
MaxOrders == 8
\* Update/# messages delivered to the server in one run.
MaxUpdates == 1
\* update_statistics frames drawn in one run (specification SpecMon).
MaxFrames == 1
\* Order/Request messages the ordering client publishes in one run (SpecClient).
MaxRounds == 2
\* Order/Request messages another client publishes in one run (SpecClient).
MaxForeign == 1
\* Order/Reply messages the broker delivers a second time in one run (SpecClient).
MaxRedeliveries == 1

\* ---- program constants ---------------------------------------------------
X == 7
DELIMITER == "|"
PLACEHOLDER == "-"

\* ---- configuration (stock_and_menu.json, read once by initialise) --------
menu == [latte |-> [milk |-> 2], milktea |-> [milk |-> 1, tea |-> 1]]

Ingredients == {"milk", "tea"}

\* The ledgers the configuration file starts the server with.
InitStocks ==
  { [milk |-> 2, tea |-> 0], [milk |-> 3, tea |-> 1], [milk |-> 9, tea |-> 8] }

\* ---- text ------------------------------------------------------------------
RECURSIVE Text(_)
\* The string a sequence of tokens spells.
Text(toks) == IF toks = <<>> THEN "" ELSE Head(toks) \o Text(Tail(toks))

RECURSIVE SplitFrom(_, _, _)
SplitFrom(toks, cur, acc) ==
  IF toks = <<>> THEN Append(acc, cur)
  ELSE IF Head(toks) = DELIMITER
       THEN SplitFrom(Tail(toks), <<>>, Append(acc, cur))
       ELSE SplitFrom(Tail(toks), Append(cur, Head(toks)), acc)

\* A faulty split: fields after the second are dropped (split, then [0] and [1]).
Split_first_two(toks) ==
  LET fields == SplitFrom(toks, <<>>, <<>>)
  IN IF Len(fields) > 2 THEN SubSeq(fields, 1, 2) ELSE fields

\* str.split(DELIMITER): the fields between the delimiters, at least one.
Split(toks) == SplitFrom(toks, <<>>, <<>>)

\* The integers whose decimal spelling the model's messages use.
LitRange == -2 .. 12

\* int(s) succeeds: s spells an integer (Python accepts a leading sign).
IsIntString(s) == s = "+1" \/ \E i \in LitRange : ToString(i) = s

\* int(s) for such a string.
IntOf(s) == IF s = "+1" THEN 1 ELSE CHOOSE i \in LitRange : ToString(i) = s

\* ---- messages the broker can deliver to the server -------------------------
ClientIds == { <<"c", "2">> }

OrderPayloads ==
  { id \o <<DELIMITER, d>> : id \in ClientIds, d \in {"latte", "milktea", "cocoa"} }
    \cup { id : id \in ClientIds }
    \cup { id \o <<DELIMITER, "latte", DELIMITER, "x">> : id \in ClientIds }

OrderNoPayloads == { <<"-1">>, <<"5">>, <<"abc">> }

StockPayloads ==
  { <<"milk", DELIMITER, "2">>, <<"milk", DELIMITER, "-1">>,
    <<"tea", DELIMITER, "+1">>, <<"syrup", DELIMITER, "1">>,
    <<"milk", DELIMITER, "abc">>, <<"milk">> }

\* Every topic under Update/# other than Update/OrderNo takes the else branch.
Messages ==
  { [topic |-> "Order/Request", payload |-> p] : p \in OrderPayloads }
    \cup { [topic |-> "Update/OrderNo", payload |-> p] : p \in OrderNoPayloads }
    \cup { [topic |-> "Update/Stock", payload |-> p] : p \in StockPayloads }
    \cup { [topic |-> "Update/Other", payload |-> <<"tea", DELIMITER, "0">>] }

NoMsg == [topic |-> "", payload |-> <<>>]
NoLoc ==
  [client_id |-> <<>>, drink |-> "", available |-> FALSE, ingredient |-> "",
   new_value |-> ""]

NoObs == [stock |-> <<>>, avail |-> <<>>, orders |-> <<>>]

\* ---- the ordering client's constants -----------------------------------------
\* CLIENT_ID = 'bbt-client-2', spelled in tokens.
CLIENT_ID == <<"c", "2">>

\* Another ordering client, whose identifier extends this client's.
OTHER_ID == <<"c", "2", "1">>

\* The values of the client's order_number.
NEW_ORDER == [kind |-> "NEW ORDER", no |-> 0]
REJECTED == [kind |-> "REJECTED", no |-> 0]
Number(n) == [kind |-> "number", no |-> n]

NoStats ==
  [published |-> 0, answered |-> 0, foreign |-> 0, redelivered |-> 0,
   issued |-> <<>>, reported |-> <<>>, accepted_other |-> FALSE]

\* ---- the text of a payload, read without the server's parser -------------------
\* How many delimiter characters payload p holds.
Delimiters(p) == Cardinality({ i \in 1 .. Len(p) : p[i] = DELIMITER })

\* The text before and after the first delimiter of p.
Before(p) == SubSeq(p, 1, (CHOOSE i \in 1 .. Len(p) : p[i] = DELIMITER) - 1)
After(p) == SubSeq(p, (CHOOSE i \in 1 .. Len(p) : p[i] = DELIMITER) + 1, Len(p))

\* The text spells the integer q.
Spells(text, q) == ToString(q) = text \/ (text = "+1" /\ q = 1)

VARIABLES
  stock,              \* ingredient -> quantity
  order_number,       \* the number the next approved order gets
  menu_availability,  \* drink -> BOOLEAN
  last_x_orders,      \* the X history entries, oldest first
  retained,           \* the retained payload of Menu/Availability at the broker
  pc,                 \* where the network thread is inside on_message
  alive,              \* the network thread (client.loop_forever) is running
  msg,                \* the message on_message is handling
  loc,                \* on_message's locals
  outbox,             \* what this call of on_message has published so far
  pre,                \* stock, order_number, history, availability at its entry
  delivered,          \* how many messages of each kind have been delivered
  log,                \* the approved replies published so far: <<number, drink>>
  chain,              \* no Update/OrderNo was handled since the last approval
  lastExact,          \* the drink whose last unit the call before this one sold, or ""
  ledger,             \* per ingredient: the value last set and what was taken since
  mon_pc,             \* where the main thread is inside update_statistics
  obs,                \* what the current frame has read
  frames              \* frames drawn so far

\* The ordering client (bbt_client2.py) and the broker between it and the server.
VARIABLES
  requests,           \* Order/Request payloads published, not yet given to the server
  inbox,              \* Order/Reply messages on their way to the client
  cl_menu,            \* the client's menu_availability
  cl_order_number,    \* the client's order_number: 'NEW ORDER', 'REJECTED' or a number
  cl_received,        \* the client's received_reply
  cl_pc,              \* where the client's main thread is inside order()
  cl_net,             \* where the client's network thread is inside on_message
  cl_msg,             \* the Order/Reply payload the client's on_message is handling
  cl_alive,           \* the client's network thread is running
  cl_stats            \* counts: requests published, replies answered, and so on

client_vars == << requests, inbox, cl_menu, cl_order_number, cl_received, cl_pc,
                  cl_net, cl_msg, cl_alive, cl_stats >>

vars == << stock, order_number, menu_availability, last_x_orders, retained, pc,
           alive, msg, loc, outbox, pre, delivered, log, chain, lastExact,
           ledger, mon_pc, obs, frames, client_vars >>

server_vars == << stock, order_number, menu_availability, last_x_orders, retained,
                  pc, alive, msg, loc, outbox, pre, delivered, log, chain,
                  lastExact, ledger >>

mon_vars == << mon_pc, obs, frames >>

\* ---- the server's functions -------------------------------------------------
\* A faulty check_availability: it asks only that no ingredient has run out.
check_availability_nonempty(stk, drink) ==
  \A ingredient \in DOMAIN menu[drink] : stk[ingredient] > 0

\* check_availability(drink) on ledger stk: every ingredient covers the recipe.
check_availability(stk, drink) ==
  \A ingredient \in DOMAIN menu[drink] : ~(stk[ingredient] < menu[drink][ingredient])

\* A faulty get_menu_availability: an entry the dict already holds is kept.
get_menu_availability_setdefault(stk, av) ==
  [d \in DOMAIN av \cup DOMAIN menu |->
     IF d \in DOMAIN av THEN av[d] ELSE check_availability(stk, d)]

\* get_menu_availability(): every drink of menu re-evaluated into the dict av.
get_menu_availability(stk, av) ==
  [d \in DOMAIN av \cup DOMAIN menu |->
     IF d \in DOMAIN menu THEN check_availability(stk, d) ELSE av[d]]

\* A faulty reduce_stock: it returns after the first ingredient of the recipe.
reduce_stock_first(stk, drink) ==
  LET first == CHOOSE i \in DOMAIN menu[drink] : TRUE
  IN [i \in DOMAIN stk |-> IF i = first THEN stk[i] - menu[drink][i] ELSE stk[i]]

\* A faulty reduce_stock: it also takes one unit of every ingredient outside the recipe.
reduce_stock_every(stk, drink) ==
  [i \in DOMAIN stk |->
     IF i \in DOMAIN menu[drink] THEN stk[i] - menu[drink][i] ELSE stk[i] - 1]

\* reduce_stock(drink): the recipe taken off the ledger.
reduce_stock(stk, drink) ==
  [i \in DOMAIN stk |->
     IF i \in DOMAIN menu[drink] THEN stk[i] - menu[drink][i] ELSE stk[i]]

\* A faulty stock update: the value is added to the quantity (stock[...] += value).
set_stock_add(stk, ingredient, value) ==
  [i \in DOMAIN stk \cup {ingredient} |->
     IF i # ingredient THEN stk[i]
     ELSE IF i \in DOMAIN stk THEN stk[i] + value ELSE value]

\* stock[ingredient] = value: an absent key is added.
set_stock(stk, ingredient, value) ==
  [i \in DOMAIN stk \cup {ingredient} |-> IF i = ingredient THEN value ELSE stk[i]]

\* A faulty order-number update: the value is added (order_number += value).
set_order_number_add(n, value) == n + value

\* order_number = value
set_order_number(n, value) == value

\* f'\nOrder {order_number}: {drink}\n'
OrderEntry(n, drink) == "\nOrder " \o ToString(n) \o ": " \o drink \o "\n"

\* A faulty pop: last_x_orders.pop() drops the newest entry.
pop_last(orders) == SubSeq(orders, 1, Len(orders) - 1)

\* last_x_orders.pop(0): the list without its first entry.
pop_first(orders) == Tail(orders)

\* A faulty increment: the number is advanced twice.
next_order_number_twice(n) == n + 2

\* order_number += 1
next_order_number(n) == n + 1

\* A faulty approved reply: the order number is left out.
ApprovedReply_idonly(client_id, n) == client_id

\* f'{client_id}{DELIMITER}{order_number}'
ApprovedReply(client_id, n) == client_id \o <<DELIMITER, ToString(n)>>

\* f'{client_id}'
RejectedReply(client_id) == client_id

Publication(topic, payload, retain) ==
  [topic |-> topic, payload |-> payload, retain |-> retain]

Snapshot(stk, no, orders, av) ==
  [stock |-> stk, order_number |-> no, last_x_orders |-> orders,
   menu_availability |-> av]

\* ---- initial state: module globals, then initialise() ------------------------
Init ==
  /\ stock \in InitStocks
  /\ order_number = 1
  /\ menu_availability = get_menu_availability(stock, <<>>)
  /\ last_x_orders = [i \in 1 .. X |-> PLACEHOLDER]
  /\ retained = menu_availability
  /\ pc = "idle"
  /\ alive = TRUE
  /\ msg = NoMsg
  /\ loc = NoLoc
  /\ outbox = <<>>
  /\ pre = Snapshot(stock, order_number, last_x_orders, menu_availability)
  /\ delivered = [orders |-> 0, updates |-> 0]
  /\ log = <<>>
  /\ ledger = [i \in DOMAIN stock |-> [set |-> stock[i], used |-> 0]]
  /\ chain = TRUE
  /\ lastExact = ""
  /\ mon_pc = "idle"
  /\ obs = NoObs
  /\ frames = 0
  /\ requests = <<>>
  /\ inbox = <<>>
  /\ cl_menu = <<>>
  /\ cl_order_number = NEW_ORDER
  /\ cl_received = FALSE
  /\ cl_pc = "L99"
  /\ cl_net = "idle"
  /\ cl_msg = <<>>
  /\ cl_alive = TRUE
  /\ cl_stats = NoStats

\* ---- on_message ---------------------------------------------------------------
\* An exception leaves on_message: nothing catches it in the callback, it
\* propagates out of client.loop_forever and the network thread ends.
Raise ==
  /\ pc' = "raised"
  /\ alive' = FALSE

\* The drink whose last unit the call that has just returned sold: an approved
\* order after which the ledger no longer covers the recipe.
SoldLastUnit ==
  IF msg.topic = "Order/Request" /\ loc.available
       /\ ~check_availability(stock, loc.drink)
  THEN loc.drink ELSE ""

\* Order/Request: lines 138-144 (approved, up to the reply) or 138-157 (rejected).
OrderRequest(m) ==
  LET fields == Split(m.payload) IN
  IF Len(fields) # 2
  THEN \* line 138: the unpacking raises ValueError
       /\ Raise
       /\ loc' = NoLoc
       /\ outbox' = <<>>
       /\ UNCHANGED << stock, log >>
  ELSE LET client_id == fields[1]
           drink == Text(fields[2])
       IN IF drink \notin DOMAIN menu
          THEN \* line 83: menu[drink] raises KeyError
               /\ Raise
               /\ loc' = [NoLoc EXCEPT !.client_id = client_id, !.drink = drink]
               /\ outbox' = <<>>
               /\ UNCHANGED << stock, log >>
          ELSE IF check_availability(stock, drink)
          THEN /\ loc' = [NoLoc EXCEPT !.client_id = client_id, !.drink = drink,
                                       !.available = TRUE]
               /\ stock' = reduce_stock(stock, drink)
               /\ outbox' = << Publication("Order/Reply",
                                           ApprovedReply(client_id, order_number),
                                           FALSE) >>
               /\ log' = Append(log, << order_number, drink >>)
               /\ pc' = "L146"
               /\ UNCHANGED alive
          ELSE /\ loc' = [NoLoc EXCEPT !.client_id = client_id, !.drink = drink]
               /\ outbox' = << Publication("Order/Reply", RejectedReply(client_id),
                                           FALSE) >>
               /\ pc' = "idle"
               /\ UNCHANGED << stock, alive, log >>

\* Update/OrderNo: line 160.
OrderNoUpdate(m) ==
  LET text == Text(m.payload) IN
  /\ loc' = [NoLoc EXCEPT !.new_value = text]
  /\ IF IsIntString(text)
     THEN /\ order_number' = set_order_number(order_number, IntOf(text))
          /\ chain' = FALSE
          /\ pc' = "idle"
          /\ UNCHANGED alive
     ELSE \* int() raises ValueError
          /\ Raise
          /\ UNCHANGED << order_number, chain >>

\* Any other topic: lines 164-166.
StockUpdate(m) ==
  LET fields == Split(m.payload) IN
  IF Len(fields) # 2
  THEN \* line 164: the unpacking raises ValueError
       /\ Raise
       /\ loc' = NoLoc
       /\ UNCHANGED stock
  ELSE LET ingredient == Text(fields[1])
           new_value == Text(fields[2])
       IN /\ loc' = [NoLoc EXCEPT !.ingredient = ingredient, !.new_value = new_value]
          /\ IF IsIntString(new_value)
             THEN /\ stock' = set_stock(stock, ingredient, IntOf(new_value))
                  /\ pc' = "L168"
                  /\ UNCHANGED alive
             ELSE \* line 166: int() raises ValueError before the assignment
                  /\ Raise
                  /\ UNCHANGED stock

\* What recipe d needs of ingredient i: nothing if i is not in a recipe of that name.
Needs(d, i) == IF d \in DOMAIN menu /\ i \in DOMAIN menu[d] THEN menu[d][i] ELSE 0

\* The books after message e wrote stock, read from the text of e: an approved order
\* adds its recipe to what was taken, an Update/Stock sets its ingredient anew.
Booked(led, e) ==
  IF e.topic = "Order/Request"
  THEN [i \in DOMAIN led |->
          [led[i] EXCEPT !.used = @ + Needs(Text(After(e.payload)), i)]]
  ELSE LET k == Text(Before(e.payload))
           q == CHOOSE v \in LitRange : Spells(Text(After(e.payload)), v)
       IN [i \in DOMAIN led \cup {k} |->
             IF i = k THEN [set |-> q, used |-> 0] ELSE led[i]]

\* The network loop hands the next message to on_message (lines 136-166).
Receive(m) ==
  /\ pc = "idle"
  /\ alive
  /\ msg' = m
  /\ pre' = Snapshot(stock, order_number, last_x_orders, menu_availability)
  /\ lastExact' = SoldLastUnit
  /\ IF m.topic = "Order/Request"
     THEN /\ delivered.orders < MaxOrders
          /\ delivered' = [delivered EXCEPT !.orders = @ + 1]
          /\ OrderRequest(m)
          /\ UNCHANGED << order_number, chain >>
     ELSE /\ delivered.updates < MaxUpdates
          /\ delivered' = [delivered EXCEPT !.updates = @ + 1]
          /\ outbox' = <<>>
          /\ UNCHANGED log
          /\ IF m.topic = "Update/OrderNo"
             THEN OrderNoUpdate(m) /\ UNCHANGED stock
             ELSE StockUpdate(m) /\ UNCHANGED << order_number, chain >>
  /\ UNCHANGED << menu_availability, last_x_orders, retained >>
  /\ ledger' = IF \/ m.topic = "Order/Request" /\ loc'.available
                  \/ m.topic \notin {"Order/Request", "Update/OrderNo"} /\ pc' = "L168"
               THEN Booked(ledger, m)
               ELSE ledger
  /\ UNCHANGED mon_vars

\* Lines 146 and 168: the availability recomputed in place and published retained.
PublishAvailability ==
  /\ pc \in {"L146", "L168"}
  /\ menu_availability' = get_menu_availability(stock, menu_availability)
  /\ retained' = menu_availability'
  /\ outbox' = Append(outbox, Publication("Menu/Availability", menu_availability', TRUE))
  /\ pc' = IF pc = "L146" THEN "L149" ELSE "idle"
  /\ UNCHANGED << stock, order_number, last_x_orders, alive, msg, loc, pre,
                  delivered, log, chain, lastExact, ledger >>
  /\ UNCHANGED << mon_vars, client_vars >>

\* Line 149: last_x_orders.pop(0)
PopOldest ==
  /\ pc = "L149"
  /\ last_x_orders' = pop_first(last_x_orders)
  /\ pc' = "L150"
  /\ UNCHANGED << stock, order_number, menu_availability, retained, alive, msg, loc,
                  outbox, pre, delivered, log, chain, lastExact, ledger >>
  /\ UNCHANGED << mon_vars, client_vars >>

\* Line 150: last_x_orders.append(...)
AppendOrder ==
  /\ pc = "L150"
  /\ last_x_orders' = Append(last_x_orders, OrderEntry(order_number, loc.drink))
  /\ pc' = "L152"
  /\ UNCHANGED << stock, order_number, menu_availability, retained, alive, msg, loc,
                  outbox, pre, delivered, log, chain, lastExact, ledger >>
  /\ UNCHANGED << mon_vars, client_vars >>

\* Line 152: order_number += 1, and on_message returns.
IncrementOrderNumber ==
  /\ pc = "L152"
  /\ order_number' = next_order_number(order_number)
  /\ chain' = TRUE
  /\ pc' = "idle"
  /\ UNCHANGED << stock, menu_availability, last_x_orders, retained, alive, msg, loc,
                  outbox, pre, delivered, log, lastExact, ledger >>
  /\ UNCHANGED << mon_vars, client_vars >>

on_message ==
  \/ \E m \in Messages : Receive(m) /\ UNCHANGED client_vars
  \/ PublishAvailability
  \/ PopOldest
  \/ AppendOrder
  \/ IncrementOrderNumber

Next == on_message

Spec == Init /\ [][Next]_vars

\* ---- update_statistics (the main thread, every UPDATE_INTERVAL) ----------------
\* Lines 238-239: the stock chart reads the live ledger.
ReadStock ==
  /\ mon_pc = "idle"
  /\ frames < MaxFrames
  /\ obs' = [NoObs EXCEPT !.stock = stock]
  /\ mon_pc' = "L255"
  /\ UNCHANGED << frames, server_vars, client_vars >>

\* Lines 255-260: the availability chart reads the live dict.
ReadAvailability ==
  /\ mon_pc = "L255"
  /\ obs' = [obs EXCEPT !.avail = menu_availability]
  /\ mon_pc' = "L277"
  /\ UNCHANGED << frames, server_vars, client_vars >>

\* Line 277: the orders chart reads the live list.
ReadOrders ==
  /\ mon_pc = "L277"
  /\ obs' = [obs EXCEPT !.orders = last_x_orders]
  /\ mon_pc' = "drawn"
  /\ UNCHANGED << frames, server_vars, client_vars >>

\* Line 282: the frame is returned; its readings are gone.
FrameDone ==
  /\ mon_pc = "drawn"
  /\ obs' = NoObs
  /\ mon_pc' = "idle"
  /\ frames' = frames + 1
  /\ UNCHANGED << server_vars, client_vars >>

update_statistics ==
  \/ ReadStock
  \/ ReadAvailability
  \/ ReadOrders
  \/ FrameDone

NextMon == on_message \/ update_statistics

\* The server started on the smallest ledger, its monitoring interface running.
InitMon == Init /\ stock = [milk |-> 2, tea |-> 0]

SpecMon == InitMon /\ [][NextMon]_vars

\* ---- the broker and the ordering client (bbt_client2.py) -----------------------
\* str.startswith(prefix)
StartsWith(s, prefix) == Len(s) >= Len(prefix) /\ SubSeq(s, 1, Len(prefix)) = prefix

\* The Order/Reply publications among pubs, as messages on their way to a subscriber.
InFlight(pubs) ==
  LET replies == SelectSeq(pubs, LAMBDA x : x.topic = "Order/Reply")
  IN [i \in 1 .. Len(replies) |-> [payload |-> replies[i].payload, again |-> FALSE]]

\* The broker gives the server the oldest Order/Request (on_message lines 136-157);
\* the reply the server publishes goes to every subscriber of Order/Reply.
ServerReceive ==
  /\ requests # <<>>
  /\ Receive([topic |-> "Order/Request", payload |-> Head(requests)])
  /\ requests' = Tail(requests)
  /\ inbox' = inbox \o InFlight(outbox')
  /\ cl_stats' = [cl_stats EXCEPT !.issued =
                    IF loc'.available /\ loc'.client_id = CLIENT_ID
                    THEN Append(@, order_number) ELSE @]
  /\ UNCHANGED << cl_menu, cl_order_number, cl_received, cl_pc, cl_net, cl_msg,
                  cl_alive >>

\* Another client (identifier OTHER_ID) publishes an order request.
OtherClientPublishes ==
  /\ cl_stats.foreign < MaxForeign
  /\ \E d \in DOMAIN menu : requests' = Append(requests, OTHER_ID \o <<DELIMITER, d>>)
  /\ cl_stats' = [cl_stats EXCEPT !.foreign = @ + 1]
  /\ UNCHANGED << inbox, cl_menu, cl_order_number, cl_received, cl_pc, cl_net, cl_msg,
                  cl_alive >>
  /\ UNCHANGED << server_vars, mon_vars >>

\* Client on_message, lines 52-54: the retained availability reaches the client.
ClientOnMenu ==
  /\ cl_alive
  /\ cl_net = "idle"
  /\ cl_menu # retained
  /\ cl_menu' = retained
  /\ UNCHANGED << requests, inbox, cl_order_number, cl_received, cl_pc, cl_net, cl_msg,
                  cl_alive, cl_stats >>
  /\ UNCHANGED << server_vars, mon_vars >>

\* Client on_message, lines 57-64, for Order/Reply payload p.
ClientHandleReply(p) ==
  IF ~StartsWith(p, CLIENT_ID)
  THEN \* not taken as directed at this client
       UNCHANGED << cl_order_number, cl_net, cl_alive >>
  ELSE IF p # CLIENT_ID
  THEN LET fields == Split(p)
           last == Text(fields[Len(fields)])
       IN IF IsIntString(last)
          THEN /\ cl_order_number' = Number(IntOf(last))
               /\ cl_net' = "L65"
               /\ UNCHANGED cl_alive
          ELSE \* line 61: int() raises ValueError; the network thread ends
               /\ cl_net' = "raised"
               /\ cl_alive' = FALSE
               /\ UNCHANGED cl_order_number
  ELSE /\ cl_order_number' = REJECTED
       /\ cl_net' = "L65"
       /\ UNCHANGED cl_alive

\* The broker delivers the oldest Order/Reply to the client; under at-least-once
\* delivery it may keep the message to deliver it again later.
ClientOnReply ==
  /\ cl_alive
  /\ cl_net = "idle"
  /\ inbox # <<>>
  /\ LET m == Head(inbox) IN
     /\ cl_msg' = m.payload
     /\ ClientHandleReply(m.payload)
     /\ \/ /\ inbox' = Tail(inbox)
           /\ cl_stats' = [cl_stats EXCEPT
                !.answered = IF ~m.again /\ Split(m.payload)[1] = CLIENT_ID
                             THEN @ + 1 ELSE @,
                !.accepted_other = @ \/ (cl_net' = "L65"
                                         /\ Split(m.payload)[1] # CLIENT_ID)]
        \/ /\ cl_stats.redelivered < MaxRedeliveries
           /\ inbox' = Append(Tail(inbox), [m EXCEPT !.again = TRUE])
           /\ cl_stats' = [cl_stats EXCEPT
                !.redelivered = @ + 1,
                !.answered = IF ~m.again /\ Split(m.payload)[1] = CLIENT_ID
                             THEN @ + 1 ELSE @,
                !.accepted_other = @ \/ (cl_net' = "L65"
                                         /\ Split(m.payload)[1] # CLIENT_ID)]
  /\ UNCHANGED << requests, cl_menu, cl_received, cl_pc >>
  /\ UNCHANGED << server_vars, mon_vars >>

\* Client on_message, line 65: received_reply = True
ClientSetReceived ==
  /\ cl_net = "L65"
  /\ cl_received' = TRUE
  /\ cl_net' = "idle"
  /\ UNCHANGED << requests, inbox, cl_menu, cl_order_number, cl_pc, cl_msg, cl_alive,
                  cl_stats >>
  /\ UNCHANGED << server_vars, mon_vars >>

\* order(), lines 99-102: wait until the menu has arrived.
WaitMenu ==
  /\ cl_pc = "L99"
  /\ cl_menu # <<>>
  /\ cl_pc' = "L109"
  /\ UNCHANGED << requests, inbox, cl_menu, cl_order_number, cl_received, cl_net,
                  cl_msg, cl_alive, cl_stats >>
  /\ UNCHANGED << server_vars, mon_vars >>

\* order(), line 109: the test of the inner loop.
LoopTest ==
  /\ cl_pc = "L109"
  /\ cl_pc' = IF cl_order_number.kind \in {"NEW ORDER", "REJECTED"}
              THEN "L116" ELSE "L132"
  /\ UNCHANGED << requests, inbox, cl_menu, cl_order_number, cl_received, cl_net,
                  cl_msg, cl_alive, cl_stats >>
  /\ UNCHANGED << server_vars, mon_vars >>

\* order(), lines 111-124: the user picks a drink of the menu; the request is published.
SelectAndPublish ==
  /\ cl_pc = "L116"
  /\ cl_stats.published < MaxRounds
  /\ \E drink \in DOMAIN cl_menu :
       requests' = Append(requests, CLIENT_ID \o <<DELIMITER, drink>>)
  /\ cl_stats' = [cl_stats EXCEPT !.published = @ + 1]
  /\ cl_pc' = "L128"
  /\ UNCHANGED << inbox, cl_menu, cl_order_number, cl_received, cl_net, cl_msg,
                  cl_alive >>
  /\ UNCHANGED << server_vars, mon_vars >>

\* order(), lines 128-129: the wait loop ends once received_reply is true.
WaitReply ==
  /\ cl_pc = "L128"
  /\ cl_received
  /\ cl_pc' = "L130"
  /\ UNCHANGED << requests, inbox, cl_menu, cl_order_number, cl_received, cl_net,
                  cl_msg, cl_alive, cl_stats >>
  /\ UNCHANGED << server_vars, mon_vars >>

\* order(), line 130: received_reply = False
ClearReceived ==
  /\ cl_pc = "L130"
  /\ cl_received' = FALSE
  /\ cl_pc' = "L109"
  /\ UNCHANGED << requests, inbox, cl_menu, cl_order_number, cl_net, cl_msg, cl_alive,
                  cl_stats >>
  /\ UNCHANGED << server_vars, mon_vars >>

\* order(), lines 132-133: 'Order sent successfully' is printed with order_number,
\* and order_number = 'NEW ORDER'.
ReportSuccess ==
  /\ cl_pc = "L132"
  /\ cl_stats' = [cl_stats EXCEPT !.reported = Append(@, cl_order_number)]
  /\ cl_order_number' = NEW_ORDER
  /\ cl_pc' = "L134"
  /\ UNCHANGED << requests, inbox, cl_menu, cl_received, cl_net, cl_msg, cl_alive >>
  /\ UNCHANGED << server_vars, mon_vars >>

\* order(), line 134: enter restarts the loop, any other input ends it.
Restart ==
  /\ cl_pc = "L134"
  /\ cl_pc' \in {"L109", "done"}
  /\ UNCHANGED << requests, inbox, cl_menu, cl_order_number, cl_received, cl_net,
                  cl_msg, cl_alive, cl_stats >>
  /\ UNCHANGED << server_vars, mon_vars >>

client ==
  \/ ClientOnMenu
  \/ ClientOnReply
  \/ ClientSetReceived
  \/ WaitMenu
  \/ LoopTest
  \/ SelectAndPublish
  \/ WaitReply
  \/ ClearReceived
  \/ ReportSuccess
  \/ Restart

server ==
  \/ ServerReceive /\ UNCHANGED mon_vars
  \/ PublishAvailability
  \/ PopOldest
  \/ AppendOrder
  \/ IncrementOrderNumber

NextClient == server \/ client \/ OtherClientPublishes

\* The server, the broker and the ordering clients; the ledger covers two orders.
InitClient == Init /\ stock = [milk |-> 3, tea |-> 1]

SpecClient == InitClient /\ [][NextClient]_vars

\* ==== properties ====================================================================
\* The specification's own reading of "the ledger covers the recipe of d".
Covers(stk, d) == \A i \in DOMAIN menu[d] : stk[i] >= menu[d][i]

\* The ledger stk with the recipe of d taken off.
Minus(stk, d) ==
  [i \in DOMAIN stk |-> IF i \in DOMAIN menu[d] THEN stk[i] - menu[d][i] ELSE stk[i]]

NonNegative(stk) == \A i \in DOMAIN stk : stk[i] >= 0

\* on_message has returned from a call.
Returned == pc = "idle" /\ msg # NoMsg

IsOrder == msg.topic = "Order/Request"

IsStockUpdate == msg.topic \notin {"", "Order/Request", "Update/OrderNo"}

\* The call that has returned approved its order.
ApprovedOrder == Returned /\ IsOrder /\ loc.available

\* The call that has returned rejected its order for lack of stock.
RejectedOrder == Returned /\ IsOrder /\ loc.drink \in DOMAIN menu /\ ~loc.available

\* This step writes a negative quantity into the ledger (an Update/Stock whose
\* new quantity is negative).
NegativeStockWrite ==
  /\ pc = "idle"
  /\ msg'.topic \notin {"Order/Request", "Update/OrderNo"}
  /\ IsIntString(loc'.new_value)
  /\ IntOf(loc'.new_value) < 0

\* C1 (no overdraw): a step of the server takes a ledger whose quantities are all
\* >= 0 to a ledger whose quantities are all >= 0, unless the step is an Update/Stock
\* writing a negative quantity; so from the non-negative startup ledger, orders,
\* non-negative stock updates and order-number updates never make a quantity negative.
C1_NoOverdraw ==
  [][ (NonNegative(stock) /\ ~NegativeStockWrite) => NonNegative(stock') ]_vars

\* An approved order has taken the last milk: the ledger stands at exactly 0.
C1_Witness ==
  ApprovedOrder /\ Len(log) >= 2 /\ pre.stock["milk"] > 0 /\ stock["milk"] = 0

\* C2 (availability consistency): whenever on_message has returned, the server's
\* menu_availability and the retained Menu/Availability payload both map every drink
\* of menu to TRUE exactly when the ledger covers its recipe.
C2_AvailabilityConsistent ==
  pc = "idle" =>
    /\ menu_availability = [d \in DOMAIN menu |-> Covers(stock, d)]
    /\ retained = [d \in DOMAIN menu |-> Covers(stock, d)]

\* An approved order has made a drink unavailable, and the view shows it.
C2_Witness ==
  /\ ApprovedOrder
  /\ pre.menu_availability["milktea"]
  /\ ~menu_availability["milktea"]
  /\ stock # pre.stock

\* C3 (order numbering): an approval that follows an earlier approval with no
\* Update/OrderNo handled in between publishes the earlier number plus 1, whatever
\* rejected requests and stock updates came in between; a rejected request leaves
\* order_number unchanged.
C3_OrderNumbering ==
  [][ /\ (pc = "idle" /\ pc' = "L146" /\ Len(log) > 0 /\ chain) =>
           outbox'[1].payload = ApprovedReply(loc'.client_id, log[Len(log)][1] + 1)
      /\ (pc = "idle" /\ pc' = "idle" /\ msg'.topic = "Order/Request") =>
           order_number' = order_number ]_vars

\* A third approval in a row by number, with a rejected request and a stock update
\* somewhere before it.
C3_Witness ==
  /\ pc = "L146"
  /\ chain
  /\ Len(log) >= 3
  /\ log[Len(log)][1] = log[Len(log) - 1][1] + 1
  /\ delivered.orders > Len(log)
  /\ delivered.updates >= 1

\* The ledger covers the recipe of d exactly once.
CoversOnce(stk, d) == Covers(stk, d) /\ ~Covers(Minus(stk, d), d)

\* C4 (last-unit race): a request for a drink whose recipe the ledger covers exactly
\* once is approved with the current order number, leaves the ledger short of the
\* recipe (milk 2 - 2 = 0 for latte) and the drink's availability false; the request
\* for the same drink handled next is rejected, with no number assigned and the
\* ledger unchanged.
C4_LastUnitRace ==
  (Returned /\ IsOrder /\ loc.drink \in DOMAIN menu) =>
    /\ CoversOnce(pre.stock, loc.drink) =>
         /\ outbox[1] = Publication("Order/Reply",
                                    ApprovedReply(loc.client_id, pre.order_number), FALSE)
         /\ stock = Minus(pre.stock, loc.drink)
         /\ ~Covers(stock, loc.drink)
         /\ menu_availability[loc.drink] = FALSE
         /\ (loc.drink = "latte" /\ pre.stock["milk"] = 2) => stock["milk"] = 0
    /\ lastExact = loc.drink =>
         /\ outbox = << Publication("Order/Reply", RejectedReply(loc.client_id), FALSE) >>
         /\ stock = pre.stock
         /\ order_number = pre.order_number
         /\ last_x_orders = pre.last_x_orders

\* The scenario of the specification: latte approved as order 1 on milk 2, the next
\* latte request rejected with milk still 0.
C4_Witness ==
  /\ RejectedOrder
  /\ lastExact = "latte"
  /\ loc.drink = "latte"
  /\ log = << <<1, "latte">> >>
  /\ stock["milk"] = 0
  /\ order_number = 2

\* The order request being handled names a drink that is no key of menu.
UnknownDrinkRequest ==
  /\ IsOrder
  /\ Len(Split(msg.payload)) = 2
  /\ Text(Split(msg.payload)[2]) \notin DOMAIN menu

\* The call has ended: on_message has returned or an exception has left it.
Ended == pc \in {"idle", "raised"} /\ msg # NoMsg

\* The shared state is as it was when the call began.
Untouched ==
  /\ stock = pre.stock
  /\ order_number = pre.order_number
  /\ last_x_orders = pre.last_x_orders

\* C5 (unknown drink): when the handling of an Order/Request naming a drink that is
\* no key of menu has ended, a rejection reply carrying only the requester id has
\* been published, and stock, order_number and last_x_orders are unchanged.
C5_UnknownDrinkRejected ==
  (Ended /\ UnknownDrinkRequest) =>
    /\ outbox = << Publication("Order/Reply",
                               RejectedReply(Split(msg.payload)[1]), FALSE) >>
    /\ Untouched

\* The message being handled is erroneous: an unknown drink, a payload that does not
\* split into exactly two fields, or an administrative value that is no integer.
Erroneous ==
  \/ UnknownDrinkRequest
  \/ msg.topic \notin {"", "Update/OrderNo"} /\ Len(Split(msg.payload)) # 2
  \/ msg.topic = "Update/OrderNo" /\ ~IsIntString(Text(msg.payload))
  \/ /\ IsStockUpdate
     /\ Len(Split(msg.payload)) = 2
     /\ ~IsIntString(Text(Split(msg.payload)[2]))

\* C6 (errors never abort the service): once the handling of an erroneous message
\* has ended, the network thread is still running and on_message has returned, so
\* the next message delivered is handled.
C6_ErrorsNeverAbort == (Ended /\ Erroneous) => (alive /\ pc = "idle")

RECURSIVE Entries(_)
\* The history entries of a sequence of approved orders <<number, drink>>.
Entries(orders) ==
  IF orders = <<>> THEN <<>>
  ELSE << OrderEntry(Head(orders)[1], Head(orders)[2]) >> \o Entries(Tail(orders))

\* The last n elements of a sequence.
LastN(seq, n) == SubSeq(seq, Len(seq) - n + 1, Len(seq))

Min(a, b) == IF a < b THEN a ELSE b

\* C7 (history bound, FIFO eviction): the history never holds more than X entries;
\* whenever on_message has returned it holds X entries, placeholders first and then
\* exactly the most recent min(k, X) approved orders in approval order, oldest first
\* (k approvals so far); and only a call that approved an order changed it.
C7_HistoryFifo ==
  /\ Len(last_x_orders) <= X
  /\ pc = "idle" =>
       LET n == Min(Len(log), X) IN
       /\ Len(last_x_orders) = X
       /\ SubSeq(last_x_orders, 1, X - n) = [i \in 1 .. X - n |-> PLACEHOLDER]
       /\ SubSeq(last_x_orders, X - n + 1, X) = Entries(LastN(log, n))
       /\ last_x_orders # pre.last_x_orders => ApprovedOrder

\* The approval after the history was full: the oldest approved order is gone and
\* the second oldest is now first.
C7_Witness ==
  /\ ApprovedOrder
  /\ Len(log) = X + 1
  /\ last_x_orders[1] = OrderEntry(log[2][1], log[2][2])
  /\ last_x_orders[X] = OrderEntry(log[X + 1][1], log[X + 1][2])

\* C8 (consistent reporting snapshot): what a frame of update_statistics has read is
\* a state between two completely handled messages: in particular the availability
\* it read is the availability of the ledger it read, and the history it read is
\* complete.
C8_ConsistentSnapshot ==
  mon_pc = "drawn" =>
    /\ obs.avail = [d \in DOMAIN menu |-> Covers(obs.stock, d)]
    /\ Len(obs.orders) = X

\* C9 (negative order number rejected): an Update/OrderNo whose value is a negative
\* integer leaves order_number unchanged, and no approved order carries a negative
\* number.
C9_NegativeOrderNoRejected ==
  /\ (/\ Returned
      /\ msg.topic = "Update/OrderNo"
      /\ IsIntString(Text(msg.payload))
      /\ IntOf(Text(msg.payload)) < 0) => order_number = pre.order_number
  /\ \A i \in 1 .. Len(log) : log[i][1] >= 0

\* C10 (unknown ingredient rejected): the ledger's keys are always its startup keys,
\* and an Update/Stock naming an ingredient that is none of them changes no value.
C10_UnknownIngredientRejected ==
  /\ DOMAIN stock = Ingredients
  /\ (/\ Ended
      /\ IsStockUpdate
      /\ Len(Split(msg.payload)) = 2
      /\ Text(Split(msg.payload)[1]) \notin Ingredients) => stock = pre.stock

\* C11 (reply correlation): the client's on_message writes order_number or
\* received_reply only while handling an Order/Reply whose requester identifier is
\* exactly CLIENT_ID; a reply addressed to an identifier that merely begins with
\* CLIENT_ID is ignored.
C11_ReplyCorrelation ==
  /\ cl_net \in {"L65", "raised"} => Split(cl_msg)[1] = CLIENT_ID
  /\ ~cl_stats.accepted_other

\* C12 (one outstanding request): the requests the client has published minus the
\* replies to them that have reached it is always 0 or 1, so it publishes no request
\* between publishing one and receiving the reply to it.
C12_OneOutstanding == cl_stats.published - cl_stats.answered \in {0, 1}

\* C20 (outcomes only for the outstanding request, even under redelivery): as long as
\* the client has taken no other client's reply, every 'Order sent successfully' it
\* has printed carries the number of an approval the server issued for one of its
\* own requests, and no two of them carry the same approval.
C20_ReportsOwnApprovals ==
  ~cl_stats.accepted_other =>
    LET reported == cl_stats.reported
        issued == cl_stats.issued
    IN /\ \A i \in 1 .. Len(reported) :
            /\ reported[i].kind = "number"
            /\ \E j \in 1 .. Len(issued) : reported[i].no = issued[j]
       /\ \A i, j \in 1 .. Len(reported) : reported[i] = reported[j] => i = j

\* The message being handled is an Order/Request 'id|drink' for a drink of menu.
MenuOrder ==
  IsOrder /\ Delimiters(msg.payload) = 1 /\ Text(After(msg.payload)) \in DOMAIN menu

OrderedDrink == Text(After(msg.payload))

RepliesIn(pubs) == SelectSeq(pubs, LAMBDA x : x.topic = "Order/Reply")

\* C14 (exactly one reply, decided on the current ledger): from the moment on_message
\* takes an Order/Request for a drink of menu, exactly one Order/Reply has been
\* published for it; it carries the requester id and the current order number if the
\* ledger at that moment covers the recipe, and the requester id alone otherwise.
C14_OneReplyPerRequest ==
  MenuOrder =>
    /\ Len(RepliesIn(outbox)) = 1
    /\ RepliesIn(outbox)[1].payload =
         IF Covers(pre.stock, OrderedDrink)
         THEN Before(msg.payload) \o <<DELIMITER, ToString(pre.order_number)>>
         ELSE Before(msg.payload)

\* The third approval: its reply carries number 3, and the availability followed it.
C14_Witness ==
  /\ ApprovedOrder
  /\ Len(outbox) = 2
  /\ outbox[1].payload = <<"c", "2", DELIMITER, "3">>
  /\ Len(log) = 3

\* C15 (stock update, effect and frame): an Update/Stock 'ingredient|q' for a key of
\* the ledger sets that quantity to exactly q, and leaves every other quantity,
\* order_number and last_x_orders as they were.
C15_StockUpdateFrame ==
  (/\ Returned
   /\ IsStockUpdate
   /\ Delimiters(msg.payload) = 1
   /\ Text(Before(msg.payload)) \in DOMAIN pre.stock) =>
    \A q \in LitRange :
      Spells(Text(After(msg.payload)), q) =>
        /\ stock = [i \in DOMAIN pre.stock |->
                      IF i = Text(Before(msg.payload)) THEN q ELSE pre.stock[i]]
        /\ order_number = pre.order_number
        /\ last_x_orders = pre.last_x_orders

\* Milk is set from 0 to 2 after an order was approved; tea and the history stay.
C15_Witness ==
  /\ Returned
  /\ msg = [topic |-> "Update/Stock", payload |-> <<"milk", DELIMITER, "2">>]
  /\ pre.stock["milk"] = 0
  /\ stock["milk"] = 2
  /\ stock["tea"] = pre.stock["tea"]
  /\ Len(log) >= 1

\* All three effects of a commit have happened.
Committed ==
  /\ stock = Minus(pre.stock, OrderedDrink)
  /\ order_number = pre.order_number + 1
  /\ last_x_orders =
       Append(Tail(pre.last_x_orders), OrderEntry(pre.order_number, OrderedDrink))
  /\ RepliesIn(outbox)[1].payload =
       Before(msg.payload) \o <<DELIMITER, ToString(pre.order_number)>>

\* C16 (commit is all-or-nothing between events): whenever the handling of an
\* Order/Request has ended, either the ledger is reduced by the recipe, order_number
\* is one higher and the history has gained the entry with the number of the approved
\* reply, or all three are as before; and while a commit is under way the ledger and
\* the counter are exactly what this request made them: no other event was handled.
C16_CommitAllOrNothing ==
  /\ (Ended /\ IsOrder) => (MenuOrder /\ Committed) \/ Untouched
  /\ pc \in {"L146", "L149", "L150", "L152"} /\ IsOrder =>
       /\ stock = Minus(pre.stock, OrderedDrink)
       /\ order_number = pre.order_number

\* A milktea is committed as the second approval: milk and tea both taken.
C16_Witness ==
  /\ ApprovedOrder
  /\ loc.drink = "milktea"
  /\ Len(log) = 2
  /\ stock["tea"] = pre.stock["tea"] - 1
  /\ stock["milk"] = pre.stock["milk"] - 1
  /\ order_number = pre.order_number + 1

\* C17 (rejection has no effect): an Order/Request for a drink of menu whose recipe
\* the ledger does not cover leaves stock, order_number, last_x_orders and
\* menu_availability unchanged, and its only publication is the Order/Reply carrying
\* the requester id alone.
C17_RejectionNoEffect ==
  (MenuOrder /\ ~Covers(pre.stock, OrderedDrink)) =>
    /\ pc = "idle"
    /\ Untouched
    /\ menu_availability = pre.menu_availability
    /\ outbox = << Publication("Order/Reply", Before(msg.payload), FALSE) >>

\* A milktea is rejected for lack of tea although milk is there, after an approval.
C17_Witness ==
  /\ RejectedOrder
  /\ loc.drink = "milktea"
  /\ pre.stock["tea"] = 0
  /\ pre.stock["milk"] >= 1
  /\ Len(log) >= 1

\* on_message has returned from an Update/OrderNo spelling the integer v.
OverrideReturned(v) ==
  Returned /\ msg.topic = "Update/OrderNo" /\ ToString(v) = Text(msg.payload)

\* C18 (order-number override, effect and frame): an Update/OrderNo with a
\* non-negative integer v sets order_number to v, leaves stock, menu_availability and
\* last_x_orders unchanged and publishes nothing; an order approved next is assigned v.
C18_OrderNoOverride ==
  [][ \A v \in 0 .. 12 :
        /\ OverrideReturned(v)' =>
             /\ order_number' = v
             /\ stock' = pre'.stock
             /\ menu_availability' = pre'.menu_availability
             /\ last_x_orders' = pre'.last_x_orders
             /\ outbox' = <<>>
        /\ (OverrideReturned(v) /\ pc' = "L146") =>
             RepliesIn(outbox')[1].payload =
               Before(msg'.payload) \o <<DELIMITER, ToString(v)>> ]_vars

\* The order approved after the override to 5 is being committed as number 5.
C18_Witness ==
  /\ pc = "L146"
  /\ ~chain
  /\ pre.order_number = 5
  /\ Len(log) >= 2
  /\ log[Len(log)][1] = 5

\* The payload is malformed: not exactly two fields where two are expected, or a
\* value that is no integer.
Malformed ==
  \/ msg.topic \notin {"", "Update/OrderNo"} /\ Delimiters(msg.payload) # 1
  \/ msg.topic = "Update/OrderNo" /\ ~IsIntString(Text(msg.payload))
  \/ /\ IsStockUpdate
     /\ Delimiters(msg.payload) = 1
     /\ ~IsIntString(Text(After(msg.payload)))

\* C19 (malformed payloads have no effect): a malformed message leaves stock,
\* order_number, last_x_orders and menu_availability as they were and causes no
\* publication.
C19_MalformedNoEffect ==
  (msg # NoMsg /\ Malformed) =>
    /\ Untouched
    /\ menu_availability = pre.menu_availability
    /\ retained = pre.menu_availability
    /\ outbox = <<>>

\* An order with three fields arrives after an approval and changes nothing.
C19_Witness ==
  /\ pc = "raised"
  /\ IsOrder
  /\ Delimiters(msg.payload) = 2
  /\ Len(log) >= 1
  /\ stock = pre.stock

\* C21 (ledger accounting): between handled events every quantity of stock is the
\* value last set for it (at startup or by the latest Update/Stock for it) minus the
\* recipe amounts of the orders approved since; rejected orders and Update/OrderNo
\* are not booked at all, and an approval takes nothing outside its recipe.
C21_LedgerAccounting ==
  Ended =>
    /\ DOMAIN stock = DOMAIN ledger
    /\ \A i \in DOMAIN stock : stock[i] = ledger[i].set - ledger[i].used

\* Milk was set to 2 by an Update/Stock and a latte was approved since; tea was taken
\* from its startup quantity, and at least one order was rejected on the way.
C21_Witness ==
  /\ Returned
  /\ ledger["milk"] = [set |-> 2, used |-> 2]
  /\ ledger["tea"].used >= 1
  /\ delivered.orders > Len(log)

====
